---- MODULE Spec2Model ----
(***************************************************************************)
(* Documentation-generation pipeline of backend/server.py:                 *)
(* create_documentation_prompt, call_hugging_face_api, format_llm_response,*)
(* generate_fallback_documentation, generate_documentation and             *)
(* check_llm_status.                                                       *)
(*                                                                         *)
(* Text.  A Python str is modelled as a sequence of pieces.  A piece is a  *)
(* record [s, w]: s is the literal characters of the piece and w their     *)
(* number (len).  Every literal the code searches for ("PROGRAM-ID.",      *)
(* "JCL CODE:", "Overview", "\n", ...) is a piece of its own, so that `in`,*)
(* split and strip are computed on pieces exactly as Python computes them  *)
(* on characters.  The fixed template text between two such literals is    *)
(* one piece; it holds none of the searched literals.                      *)
(***************************************************************************)
EXTENDS Integers, Sequences, FiniteSets, TLC

T(s, w) == [s |-> s, w |-> w]

NL == T("\n", 1)

SP == T(" ", 1)

OVERVIEW == T("Overview", 8)

JOB_FLOW == T("Job Flow", 8)

TRANSFORMATIONS == T("Transformations", 15)

VALIDATIONS == T("Validations", 11)

INPUTS_OUTPUTS == T("Inputs & Outputs", 16)

DEPENDENCIES == T("Dependencies", 12)

SPECIAL_NOTES == T("Special Notes", 13)

MAINFRAME_DOCUMENTATION == T("MAINFRAME DOCUMENTATION", 23)

JCL_CODE == T("JCL CODE:", 9)

PROC_CODE == T("PROC CODE:", 10)

PROGRAM_ID == T("PROGRAM-ID.", 11)

MAINFRAME_PROGRAM == T("MAINFRAME-PROGRAM", 17)

PromptHead ==
    << T("You are a mainframe documentation expert. Analyze the provided mainframe code and generate comprehensive technical documentation.\n\nMAINFRAME CODE TO ANALYZE:", 157),
       NL,
       NL >>

PromptTail ==
    << T("GENERATE DOCUMENTATION IN THIS EXACT FORMAT:\n\n1. ", 49),
       OVERVIEW,
       NL,
       T("[Brief but technical summary of the program/job. State what the job does and its business purpose.]\n\n2. ", 104),
       JOB_FLOW,
       T(" (Only if JCL is provided)\n[Step-by-step explanation of each JCL step. Explain PROC calls, symbolic parameters, and dataset usage.]\n\n3. ", 136),
       TRANSFORMATIONS,
       NL,
       T("[List all data transformations done in the program. Explain how the data changes. Include example values when possible.]\n\n4. ", 125),
       VALIDATIONS,
       NL,
       T("[List all data validations. Mention conditions, thresholds, and error handling logic.]\n\n5. ", 91),
       INPUTS_OUTPUTS,
       NL,
       T("[Detail input files/tables and their purpose. Detail output files/tables and what they contain.]\n\n6. ", 101),
       DEPENDENCIES,
       NL,
       T("[List all external tables, datasets, modules, or jobs the program depends on.]\n\n7. ", 83),
       SPECIAL_NOTES,
       NL,
       T("[Any unique conditions, restart logic, or performance considerations.]\n\nGenerate technical, accurate documentation:", 115) >>

FallbackHead ==
    << T("=== ", 4),
       MAINFRAME_DOCUMENTATION,
       T(" (RULE-BASED ANALYSIS) ===\n\n1. ", 31),
       OVERVIEW,
       NL,
       T("Program ", 8) >>

FallbackOverviewTail ==
    << T(" is a mainframe batch processing application that handles data transformation and business logic operations. The program follows standard COBOL/Assembly programming practices and integrates with enterprise data processing workflows.\n\n2. ", 237),
       JOB_FLOW >>

FallbackRest ==
    << T("The execution follows these stages:\n- System resource allocation and dataset binding\n- Program compilation and linking (if required)  \n- Main program execution with parameter passing\n- Output generation and cleanup procedures\n\n3. ", 230),
       TRANSFORMATIONS,
       NL,
       T("Based on code analysis, the following data transformations are performed:\n- Input record processing with field validation\n- Business rule application and data enrichment\n- Calculation operations on numeric fields\n- Output record formatting and structure creation\n- Data type conversions and field mappings\n\n4. ", 310),
       VALIDATIONS,
       NL,
       T("The program implements comprehensive data validation including:\n- Input field presence and format verification\n- Business rule compliance checking\n- Numeric range and boundary validations\n- Cross-reference data integrity checks\n- Error condition handling and reporting\n\n5. ", 273),
       INPUTS_OUTPUTS,
       NL,
       T("Input Sources:\n- Primary data files containing transaction records\n- Master files for reference data lookup\n- Parameter files for configuration settings\n- Control files for processing instructions\n\nOutput Destinations:\n- Processed transaction files with enhanced data\n- Updated master files with current information\n- Exception reports for error conditions\n- Summary reports for processing statistics\n\n6. ", 405),
       DEPENDENCIES,
       NL,
       T("The program relies on the following external components:\n- System libraries and utility programs\n- Database connections for data access\n- File system datasets for input/output\n- Security subsystems for access control\n- Logging and monitoring frameworks\n\n7. ", 257),
       SPECIAL_NOTES,
       NL,
       T("Important operational considerations:\n- Restart and recovery procedures are implemented\n- Performance monitoring and optimization features included\n- Error handling follows enterprise standards\n- Resource utilization is optimized for batch processing\n- Documentation follows mainframe best practices\n\n=== PROCESSING STATISTICS ===\nAnalysis Method: Rule-based pattern recognition\nCode Complexity: Standard enterprise-level\nDocumentation Quality: Comprehensive baseline\nRecommendation: Enhance with LLM analysis when available\n\n(Note: This is rule-based analysis. For enhanced AI-powered documentation, configure Hugging Face API key)", 632),
       NL >>

StructuredHead ==
    << T("=== AI-GENERATED ", 17),
       MAINFRAME_DOCUMENTATION,
       T(" ===\n\n1. ", 9),
       OVERVIEW,
       NL >>

StructuredMiddle ==
    << T("...\n\n2. Analysis\nThe LLM has analyzed the provided mainframe code and generated insights about its functionality and structure.\n\n3. AI Insights", 143),
       NL >>

StructuredTail ==
    << NL,
       NL,
       T("4. Recommendations\n- Review the generated analysis for accuracy\n- Consider the AI suggestions for code optimization\n- Validate business logic alignment\n\n(Note: This documentation was generated using Hugging Face LLM)", 216),
       NL >>

\* slice boundaries of format_llm_response
OverviewSlice ==
    300

InsightsSliceEnd ==
    600

\* "len(documentation) > 200" of generate_documentation
MinRemoteLen ==
    200

(***************************************************************************)
(* str operations of Python, on pieces.                                    *)
(***************************************************************************)
\* len(t)
RECURSIVE TextLen(_)
TextLen(t) ==
    IF t = <<>> THEN 0 ELSE Head(t).w + TextLen(Tail(t))

\* pat in t
Contains(t, pat) ==
    \E k \in 0..(Len(t) - Len(pat)) : SubSeq(t, k + 1, k + Len(pat)) = pat

\* position of the first piece sep of t, 0 when there is none (str.find)
FirstIndex(t, sep) ==
    IF \E k \in 1..Len(t) : t[k] = sep
    THEN CHOOSE k \in 1..Len(t) : t[k] = sep /\ \A j \in 1..(k - 1) : t[j] # sep
    ELSE 0

\* t.split(sep), sep a one-piece literal
RECURSIVE Split(_, _)
Split(t, sep) ==
    LET k == FirstIndex(t, sep)
    IN  IF k = 0 THEN <<t>>
        ELSE <<SubSeq(t, 1, k - 1)>> \o Split(SubSeq(t, k + 1, Len(t)), sep)

IsSpace(p) ==
    p \in {SP, NL}

RECURSIVE LStrip(_)
LStrip(t) ==
    IF t # <<>> /\ IsSpace(Head(t)) THEN LStrip(Tail(t)) ELSE t

RECURSIVE RStrip(_)
RStrip(t) ==
    IF t # <<>> /\ IsSpace(t[Len(t)]) THEN RStrip(SubSeq(t, 1, Len(t) - 1)) ELSE t

\* t.strip()
Strip(t) ==
    RStrip(LStrip(t))

\* the part of piece p before its first blank; p itself when it holds none
BeforeBlank(p) ==
    CASE p = JCL_CODE -> T("JCL", 3)
      [] p = PROC_CODE -> T("PROC", 4)
      [] OTHER -> p

RECURSIVE TakeWord(_)
TakeWord(t) ==
    IF t = <<>> \/ IsSpace(Head(t)) THEN <<>>
    ELSE IF BeforeBlank(Head(t)) # Head(t) THEN <<BeforeBlank(Head(t))>>
    ELSE <<Head(t)>> \o TakeWord(Tail(t))

\* t.split()[:1]: the list of the first word of t, empty when t holds no word
FirstWords(t) ==
    LET u == LStrip(t)
    IN  IF u = <<>> THEN <<>> ELSE <<TakeWord(u)>>

\* A run of w filler characters "x"; a slice of a run is a run.
Run(w) ==
    T("x..", w)

\* characters a..b-1 of piece p: the piece itself when whole, a shorter run for
\* a run, and otherwise a fragment "~" that is none of the searched literals
Cut(p, a, b) ==
    IF a = 0 /\ b = p.w THEN p
    ELSE IF p.s = "x.." THEN Run(b - a)
    ELSE T("~", b - a)

\* t[lo:hi]
RECURSIVE Slice(_, _, _)
Slice(t, lo, hi) ==
    IF t = <<>> \/ hi <= 0 THEN <<>>
    ELSE LET p == Head(t)
             a == IF lo > 0 THEN lo ELSE 0
             b == IF hi < p.w THEN hi ELSE p.w
             rest == Slice(Tail(t), lo - p.w, hi - p.w)
         IN  IF a < b THEN <<Cut(p, a, b)>> \o rest ELSE rest

\* truth value of a str
Truthy(t) ==
    t # <<>>

(***************************************************************************)
(* Optional[str] and exceptions.                                           *)
(***************************************************************************)
None ==
    [some |-> FALSE, text |-> <<>>]

Some(t) ==
    [some |-> TRUE, text |-> t]

\* x or ""
OrEmpty(x) ==
    IF x.some /\ Truthy(x.text) THEN x.text ELSE <<>>

\* the outcome of a call: a returned str, or a raised exception
Return(v) ==
    [exc |-> "", val |-> v]

Raise(e) ==
    [exc |-> e, val |-> <<>>]

(***************************************************************************)
(* create_documentation_prompt                                             *)
(***************************************************************************)
create_documentation_prompt(jcl_code, proc_code, program_code) ==
    PromptHead
    \o (IF Truthy(jcl_code) /\ Truthy(Strip(jcl_code))
        THEN <<JCL_CODE, NL>> \o jcl_code \o <<NL, NL>> ELSE <<>>)
    \o (IF Truthy(proc_code) /\ Truthy(Strip(proc_code))
        THEN <<PROC_CODE, NL>> \o proc_code \o <<NL, NL>> ELSE <<>>)
    \o <<T("PROGRAM CODE:", 13), NL>> \o program_code \o <<NL, NL>>
    \o PromptTail

(***************************************************************************)
(* generate_fallback_documentation                                         *)
(***************************************************************************)
\* lines 184-185: the line the loop stops at, 0 when no line holds the marker
MarkerLine(lines) ==
    LET hits == {k \in 1..Len(lines) : Contains(lines[k], <<PROGRAM_ID>>)}
    IN  IF hits = {} THEN 0
        ELSE CHOOSE k \in hits : \A j \in hits : k <= j

\* lines 179, 184-189: program_name, or the IndexError of [0] on an empty list
ExtractProgramName(prompt) ==
    LET lines == Split(prompt, NL)
        k == MarkerLine(lines)
        parts == Split(lines[k], PROGRAM_ID)
        words == FirstWords(Strip(parts[2]))
    IN  IF k = 0 THEN Return(<<MAINFRAME_PROGRAM>>)
        ELSE IF Len(parts) > 1
             THEN IF words = <<>> THEN Raise("IndexError") ELSE Return(words[1])
             ELSE Return(<<MAINFRAME_PROGRAM>>)

\* line 180
HasJcl(prompt) ==
    Contains(prompt, <<JCL_CODE>>)

\* line 181
HasProc(prompt) ==
    Contains(prompt, <<PROC_CODE>>)

JclDetected ==
    <<T(" (JCL Detected)", 15)>>

JclSentence ==
    <<T("The job is initiated through JCL (Job Control Language) which manages resource allocation and execution sequence. ", 114)>>

ProcSentence ==
    <<T("PROC procedures are utilized for standardized job step execution. ", 66)>>

\* lines 191-255: the f-string
FallbackTemplate(program_name, has_jcl, has_proc) ==
    FallbackHead \o program_name \o FallbackOverviewTail
    \o (IF has_jcl THEN JclDetected ELSE <<>>) \o <<NL>>
    \o (IF has_jcl THEN JclSentence ELSE <<>>)
    \o (IF has_proc THEN ProcSentence ELSE <<>>)
    \o FallbackRest

generate_fallback_documentation(prompt) ==
    LET name == ExtractProgramName(prompt)
    IN  IF name.exc # "" THEN Raise(name.exc)
        ELSE Return(FallbackTemplate(name.val, HasJcl(prompt), HasProc(prompt)))

(***************************************************************************)
(* format_llm_response                                                     *)
(***************************************************************************)
AiBanner ==
    <<T("=== AI-GENERATED ", 17), MAINFRAME_DOCUMENTATION, T(" ===", 4), NL, NL>>

DefaultInsights ==
    <<T("Additional analysis and recommendations based on code patterns.", 63)>>

\* line 150
LooksStructured(generated_text) ==
    \/ Contains(generated_text, <<T("1. ", 3), OVERVIEW>>)
    \/ Contains(generated_text, <<OVERVIEW>>)

format_llm_response(generated_text) ==
    IF LooksStructured(generated_text)
    THEN AiBanner \o generated_text
    ELSE StructuredHead \o Slice(generated_text, 0, OverviewSlice)
         \o StructuredMiddle
         \o (IF TextLen(generated_text) > OverviewSlice
             THEN Slice(generated_text, OverviewSlice, InsightsSliceEnd)
             ELSE DefaultInsights)
         \o StructuredTail

(***************************************************************************)
(* Session identifiers: None, a caller's str (n = 0 is the empty str ""),  *)
(* or a str(uuid.uuid4()); the n-th uuid drawn differs from all others and *)
(* from every caller's str.                                                *)
(***************************************************************************)
NoId ==
    [k |-> "none", n |-> 0]

StrId(n) ==
    [k |-> "str", n |-> n]

Uuid(n) ==
    [k |-> "uuid", n |-> n]

\* truth value of an Optional[str] session id
IdTruthy(id) ==
    id.k = "uuid" \/ (id.k = "str" /\ id.n > 0)

(***************************************************************************)
(* Bounds and inputs.                                                      *)
(***************************************************************************)
\* invocations of generate_documentation
NumInv ==
    2

\* lines of a request's program_code
MaxProgLines ==
    1

\* calls of check_llm_status
MaxStatusCalls ==
    3

\* models_to_try = [model_url] + FALLBACK_MODELS
NumModels ==
    4

Inv ==
    1..NumInv

Texts(alphabet, n) ==
    UNION {[1..k -> alphabet] : k \in 0..n}

N1 ==
    T("PAYROLL001.", 11)

N2 ==
    T("OTHER", 5)

WORD ==
    T("STEP1", 5)

GENERATED_TEXT ==
    T("generated_text", 14)

\* "\n".join(lines)
RECURSIVE Join(_)
Join(lines) ==
    IF lines = <<>> THEN <<>>
    ELSE IF Len(lines) = 1 THEN lines[1]
    ELSE lines[1] \o <<NL>> \o Join(Tail(lines))

\* a declaration "PROGRAM-ID. PAYROLL001.", the marker with nothing after it,
\* and a line without the marker
ProgramLines ==
    {<<PROGRAM_ID, SP, N1>>, <<PROGRAM_ID>>, <<WORD>>}

ProgramCodes ==
    {Join(lines) : lines \in Texts(ProgramLines, MaxProgLines)}

JclCodes ==
    {None, Some(<<SP>>), Some(<<WORD>>), Some(<<PROGRAM_ID, SP, N2>>)}

ProcCodes ==
    {None, Some(<<WORD>>), Some(<<JCL_CODE>>)}

SessionIds ==
    {NoId, StrId(0), StrId(1)}

\* DocumentationRequest
Requests ==
    [jcl_code : JclCodes, proc_code : ProcCodes,
     program_code : ProgramCodes, session_id : SessionIds]

\* the generated text a remote model may answer with
RawTexts ==
    {<<>>, <<OVERVIEW>>, <<Run(350)>>, <<GENERATED_TEXT>>}

\* response.json() of a 200 response: its shape and the text it carries
TextShapes ==
    {"list_obj_text", "list_str", "obj_text", "str"}

OtherShapes ==
    {"not_json", "list_empty", "list_obj_nontext", "list_obj", "list_other",
     "obj_nontext", "obj", "other"}

Bodies ==
    [shape : TextShapes, text : RawTexts] \cup [shape : OtherShapes, text : {<<>>}]

\* status codes other than 200 and 503
OtherStatuses ==
    {404, 500}

VARIABLES
    HF_API_KEY,     \* the configured credential, "" when there is none
    pc,             \* where each invocation is suspended
    request,        \* its DocumentationRequest
    session_id,     \* its local session_id
    prompt,         \* its local prompt
    documentation,  \* its local documentation
    model,          \* call_hugging_face_api: index of the candidate in models_to_try
    attempt,        \* call_hugging_face_api: 1 for the first post to it, 2 for the retry
    sent,           \* the candidates posted to, in order
    generated,      \* the generated text call_hugging_face_api formatted, if any
    error,          \* the exception caught at line 404, "" when none
    result,         \* the DocumentationResponse returned
    db,             \* db.documentation_history
    uuid_count,     \* uuid4() calls so far
    st_pc,          \* check_llm_status: where it is suspended
    st_probes,      \* check_llm_status: probe requests posted
    st_log          \* check_llm_status: the outcome and answer of each finished call

vars ==
    <<HF_API_KEY, pc, request, session_id, prompt, documentation, model, attempt,
      sent, generated, error, result, db, uuid_count, st_pc, st_probes, st_log>>

inv_vars ==
    <<pc, request, session_id, prompt, documentation, model, attempt,
      sent, generated, error, result, db, uuid_count>>

st_vars ==
    <<st_pc, st_probes, st_log>>

NoRequest ==
    [jcl_code |-> None, proc_code |-> None, program_code |-> <<>>, session_id |-> NoId]

NoResult ==
    [documentation |-> <<>>, session_id |-> NoId]

Init ==
    /\ HF_API_KEY \in {"", "hf_key"}
    /\ pc = [i \in Inv |-> "idle"]
    /\ request = [i \in Inv |-> NoRequest]
    /\ session_id = [i \in Inv |-> NoId]
    /\ prompt = [i \in Inv |-> <<>>]
    /\ documentation = [i \in Inv |-> <<>>]
    /\ model = [i \in Inv |-> 0]
    /\ attempt = [i \in Inv |-> 0]
    /\ sent = [i \in Inv |-> <<>>]
    /\ generated = [i \in Inv |-> None]
    /\ error = [i \in Inv |-> ""]
    /\ result = [i \in Inv |-> NoResult]
    /\ db = <<>>
    /\ uuid_count = 0
    /\ st_pc = "idle"
    /\ st_probes = 0
    /\ st_log = <<>>

(***************************************************************************)
(* generate_documentation, in the steps between its awaits.                *)
(***************************************************************************)
\* MethodTag with the credential test dropped
MethodTagAlways(key) ==
    "hugging_face"

\* line 394
MethodTag(key) ==
    IF key # "" THEN "hugging_face" ELSE "fallback"

\* DocRecord taking the session id from a slot the invocations share: the one
\* of the last-numbered invocation in flight
DocRecordShared(i, req, sid, doc) ==
    LET last == CHOOSE j \in Inv :
                    /\ pc[j] # "idle"
                    /\ \A l \in Inv : pc[l] # "idle" => l <= j
    IN  [inv |-> i, session_id |-> session_id[last], jcl_code |-> req.jcl_code,
         proc_code |-> req.proc_code, program_code |-> req.program_code,
         documentation |-> doc, method |-> MethodTag(HF_API_KEY)]

\* lines 387-395; inv is not a field of the document: it names the writing invocation
DocRecord(i, req, sid, doc) ==
    [inv |-> i, session_id |-> sid, jcl_code |-> req.jcl_code,
     proc_code |-> req.proc_code, program_code |-> req.program_code,
     documentation |-> doc, method |-> MethodTag(HF_API_KEY)]

\* HandlerInput handing the request's prompt to the generator again
HandlerInputPrompt(p) ==
    p

\* line 407: the argument of generate_fallback_documentation in the handler
HandlerInput(p) ==
    <<>>

\* HandlerSessionId drawing a new uuid whatever the request carries
HandlerSessionIdFresh(req, n) ==
    Uuid(n + 1)

\* line 410, n uuids drawn so far
HandlerSessionId(req, n) ==
    IF IdTruthy(req.session_id) THEN req.session_id ELSE Uuid(n + 1)

\* lines 404-411: except Exception as e, entered with exception e
Handler(i, req, p, e, n) ==
    LET fallback_doc == generate_fallback_documentation(HandlerInput(p))
    IN  /\ error' = [error EXCEPT ![i] = e]
        /\ uuid_count' = IF IdTruthy(req.session_id) THEN n ELSE n + 1
        /\ IF fallback_doc.exc = ""
           THEN /\ pc' = [pc EXCEPT ![i] = "done"]
                /\ result' = [result EXCEPT ![i] =
                       [documentation |-> fallback_doc.val,
                        session_id |-> HandlerSessionId(req, n)]]
           ELSE /\ pc' = [pc EXCEPT ![i] = "raised"]
                /\ result' = result

\* lines 386-397, up to the await of insert_one; d is the outcome of lines 369-384
Store(i, req, p, d, n) ==
    IF d.exc = ""
    THEN /\ documentation' = [documentation EXCEPT ![i] = d.val]
         /\ pc' = [pc EXCEPT ![i] = "insert"]
         /\ uuid_count' = n
         /\ UNCHANGED <<error, result>>
    ELSE /\ documentation' = documentation
         /\ Handler(i, req, p, d.exc, n)

\* line 375
Meaningful(doc) ==
    Contains(doc, <<MAINFRAME_DOCUMENTATION>>) \/ TextLen(doc) > MinRemoteLen

\* lines 372-381; d is the outcome of call_hugging_face_api
Chosen(p, d) ==
    IF d.exc = "" /\ Meaningful(d.val) THEN d
    ELSE generate_fallback_documentation(p)

\* lines 358-369 and, without a credential, 382-397
Start(i, req) ==
    LET sid == IF IdTruthy(req.session_id) THEN req.session_id
               ELSE Uuid(uuid_count + 1)
        n == IF IdTruthy(req.session_id) THEN uuid_count ELSE uuid_count + 1
        p == create_documentation_prompt(OrEmpty(req.jcl_code),
                                         OrEmpty(req.proc_code), req.program_code)
    IN  /\ pc[i] = "idle"
        /\ request' = [request EXCEPT ![i] = req]
        /\ session_id' = [session_id EXCEPT ![i] = sid]
        /\ prompt' = [prompt EXCEPT ![i] = p]
        /\ IF HF_API_KEY # ""
           THEN /\ model' = [model EXCEPT ![i] = 1]
                /\ attempt' = [attempt EXCEPT ![i] = 1]
                /\ sent' = [sent EXCEPT ![i] = <<1>>]
                /\ pc' = [pc EXCEPT ![i] = "post"]
                /\ uuid_count' = n
                /\ UNCHANGED <<documentation, error, result>>
           ELSE /\ Store(i, req, p, generate_fallback_documentation(p), n)
                /\ UNCHANGED <<model, attempt, sent>>
        /\ UNCHANGED <<HF_API_KEY, generated, db, st_vars>>

(***************************************************************************)
(* call_hugging_face_api                                                   *)
(***************************************************************************)
\* Exhausted calling the generator without the prompt
ExhaustedEmpty(p) ==
    generate_fallback_documentation(<<>>)

\* line 144, when no candidate returned
Exhausted(p) ==
    generate_fallback_documentation(p)

\* call_hugging_face_api returns or raises with outcome d: back in lines 373-397
Returned(i, d) ==
    /\ Store(i, request[i], prompt[i], Chosen(prompt[i], d), uuid_count)
    /\ UNCHANGED <<model, attempt, sent>>

\* NextModel posting to the same candidate again instead of moving on
NextModelStay(i) ==
    /\ sent' = [sent EXCEPT ![i] = Append(sent[i], model[i])]
    /\ attempt' = [attempt EXCEPT ![i] = 1]
    /\ UNCHANGED <<model, pc, documentation, error, result, uuid_count, generated>>

\* the for loop moves on: the post to the next candidate, or line 142
NextModel(i) ==
    IF model[i] < NumModels
    THEN /\ model' = [model EXCEPT ![i] = model[i] + 1]
         /\ attempt' = [attempt EXCEPT ![i] = 1]
         /\ sent' = [sent EXCEPT ![i] = Append(sent[i], model[i] + 1)]
         /\ UNCHANGED <<pc, documentation, error, result, uuid_count, generated>>
    ELSE /\ Returned(i, Exhausted(prompt[i]))
         /\ UNCHANGED generated

\* lines 120-133: the text handed to format_llm_response (Some), no return (None),
\* or the exception raised on the way
Extract(body) ==
    CASE body.shape = "not_json" -> Raise("JSONDecodeError")
      [] body.shape \in {"list_obj_text", "obj_text", "str"} ->
            Return(Some(body.text))
      [] body.shape = "list_str" ->
            IF Contains(body.text, <<GENERATED_TEXT>>) THEN Raise("TypeError")
            ELSE Return(Some(body.text))
      [] body.shape \in {"list_obj_nontext", "obj_nontext", "list_other"} ->
            Raise("TypeError")
      [] OTHER -> Return(None)

\* the post raised: transport error or timeout (line 138)
RespondError(i) ==
    /\ pc[i] = "post"
    /\ NextModel(i)
    /\ UNCHANGED <<HF_API_KEY, request, session_id, prompt, db, st_vars>>

\* RespondLoading waiting and retrying after every 503, the retry's included
RespondLoadingAnyAttempt(i) ==
    /\ pc[i] = "post"
    /\ pc' = [pc EXCEPT ![i] = "sleep"]
    /\ UNCHANGED <<HF_API_KEY, request, session_id, prompt, documentation, model,
                   attempt, sent, generated, error, result, db, uuid_count, st_vars>>

\* lines 113-116: 503 to the first post
RespondLoading(i) ==
    /\ pc[i] = "post"
    /\ attempt[i] = 1
    /\ pc' = [pc EXCEPT ![i] = "sleep"]
    /\ UNCHANGED <<HF_API_KEY, request, session_id, prompt, documentation, model,
                   attempt, sent, generated, error, result, db, uuid_count, st_vars>>

\* lines 116-117: the cooldown is over, the retry is posted
Retry(i) ==
    /\ pc[i] = "sleep"
    /\ attempt' = [attempt EXCEPT ![i] = 2]
    /\ sent' = [sent EXCEPT ![i] = Append(sent[i], model[i])]
    /\ pc' = [pc EXCEPT ![i] = "post"]
    /\ UNCHANGED <<HF_API_KEY, request, session_id, prompt, documentation, model,
                   generated, error, result, db, uuid_count, st_vars>>

\* lines 135-136: a status other than 200 (503 only to the retry)
RespondFailure(i) ==
    /\ pc[i] = "post"
    /\ \E status \in OtherStatuses \cup {503} :
          /\ status = 503 => attempt[i] = 2
          /\ NextModel(i)
    /\ UNCHANGED <<HF_API_KEY, request, session_id, prompt, db, st_vars>>

\* lines 119-133: status 200 with payload body
RespondSuccessWith(i, body) ==
    /\ pc[i] = "post"
    /\ LET x == Extract(body)
       IN  IF x.exc = "" /\ x.val.some
           THEN /\ generated' = [generated EXCEPT ![i] = x.val]
                /\ Returned(i, Return(format_llm_response(x.val.text)))
           ELSE NextModel(i)
    /\ UNCHANGED <<HF_API_KEY, request, session_id, prompt, db, st_vars>>

\* lines 119-133: status 200
RespondSuccess(i) ==
    \E body \in Bodies : RespondSuccessWith(i, body)

(***************************************************************************)
(* the history insert, lines 397-402                                       *)
(***************************************************************************)
InsertOk(i) ==
    /\ pc[i] = "insert"
    /\ db' = Append(db, DocRecord(i, request[i], session_id[i], documentation[i]))
    /\ result' = [result EXCEPT ![i] =
           [documentation |-> documentation[i], session_id |-> session_id[i]]]
    /\ pc' = [pc EXCEPT ![i] = "done"]
    /\ UNCHANGED <<HF_API_KEY, request, session_id, prompt, documentation, model,
                   attempt, sent, generated, error, uuid_count, st_vars>>

InsertRaise(i) ==
    /\ pc[i] = "insert"
    /\ Handler(i, request[i], prompt[i], "InsertError", uuid_count)
    /\ UNCHANGED <<HF_API_KEY, request, session_id, prompt, documentation, model,
                   attempt, sent, generated, db, st_vars>>

(***************************************************************************)
(* check_llm_status                                                        *)
(***************************************************************************)
\* HF_MODEL_URL.split('/')[-1]
ModelName ==
    "CodeBERT-base"

\* what happened to the probe: not posted, raised, or answered with a status
NoProbe ==
    [probed |-> FALSE, exc |-> FALSE, status |-> 0]

ProbeRaised ==
    [probed |-> TRUE, exc |-> TRUE, status |-> 0]

ProbeStatus(status) ==
    [probed |-> TRUE, exc |-> FALSE, status |-> status]

\* StatusAnswer reporting a loading model as available
StatusAnswerLoadingAvailable(o) ==
    IF ~o.probed
    THEN [status |-> "no_key", message |-> "No Hugging Face API key configured",
          code |-> 0, model |-> "None", available |-> FALSE]
    ELSE IF o.exc
    THEN [status |-> "error", message |-> "Connection error: ",
          code |-> 0, model |-> ModelName, available |-> FALSE]
    ELSE IF o.status = 200
    THEN [status |-> "working", message |-> "Hugging Face API is working",
          code |-> 0, model |-> ModelName, available |-> TRUE]
    ELSE IF o.status = 503
    THEN [status |-> "loading", message |-> "Model is loading, please wait",
          code |-> 0, model |-> ModelName, available |-> TRUE]
    ELSE [status |-> "error", message |-> "API error: ",
          code |-> o.status, model |-> ModelName, available |-> FALSE]

\* lines 306-353: the dict returned for outcome o of the probe; the status code
\* the message of line 342 quotes is kept beside its text
StatusAnswer(o) ==
    IF ~o.probed
    THEN [status |-> "no_key", message |-> "No Hugging Face API key configured",
          code |-> 0, model |-> "None", available |-> FALSE]
    ELSE IF o.exc
    THEN [status |-> "error", message |-> "Connection error: ",
          code |-> 0, model |-> ModelName, available |-> FALSE]
    ELSE IF o.status = 200
    THEN [status |-> "working", message |-> "Hugging Face API is working",
          code |-> 0, model |-> ModelName, available |-> TRUE]
    ELSE IF o.status = 503
    THEN [status |-> "loading", message |-> "Model is loading, please wait",
          code |-> 0, model |-> ModelName, available |-> FALSE]
    ELSE [status |-> "error", message |-> "API error: ",
          code |-> o.status, model |-> ModelName, available |-> FALSE]

Answered(o) ==
    st_log' = Append(st_log, [outcome |-> o, answer |-> StatusAnswer(o)])

\* StatusStart posting the probe whether or not a credential is configured
StatusStartProbing ==
    /\ st_pc = "idle"
    /\ Len(st_log) < MaxStatusCalls
    /\ st_pc' = "probe"
    /\ st_probes' = st_probes + 1
    /\ UNCHANGED <<st_log, HF_API_KEY, inv_vars>>

\* lines 306-319: answers at once without a credential, posts the probe with one
StatusStart ==
    /\ st_pc = "idle"
    /\ Len(st_log) < MaxStatusCalls
    /\ IF HF_API_KEY = ""
       THEN Answered(NoProbe) /\ UNCHANGED <<st_pc, st_probes>>
       ELSE /\ st_pc' = "probe"
            /\ st_probes' = st_probes + 1
            /\ UNCHANGED st_log
    /\ UNCHANGED <<HF_API_KEY, inv_vars>>

\* lines 325-345: the probe is answered
StatusRespond ==
    /\ st_pc = "probe"
    /\ \E status \in {200, 503} \cup OtherStatuses : Answered(ProbeStatus(status))
    /\ st_pc' = "idle"
    /\ UNCHANGED <<HF_API_KEY, inv_vars, st_probes>>

\* lines 347-353: the probe raised
StatusRaise ==
    /\ st_pc = "probe"
    /\ Answered(ProbeRaised)
    /\ st_pc' = "idle"
    /\ UNCHANGED <<HF_API_KEY, inv_vars, st_probes>>

(***************************************************************************)
(* Specifications.                                                         *)
(***************************************************************************)
\* one invocation of generate_documentation, against every behaviour of the
\* remote models and of the storage
Next ==
    \/ \E req \in Requests : Start(1, req)
    \/ RespondError(1)
    \/ RespondLoading(1)
    \/ Retry(1)
    \/ RespondFailure(1)
    \/ RespondSuccess(1)
    \/ InsertOk(1)
    \/ InsertRaise(1)

Spec ==
    Init /\ [][Next]_vars

\* without a credential: an invocation, and the same request sent again
InitNoKey ==
    Init /\ HF_API_KEY = ""

Repeat(i) ==
    /\ i > 1
    /\ pc[i - 1] = "done"
    /\ Start(i, request[i - 1])

NextRepeat ==
    \/ \E req \in Requests : Start(1, req)
    \/ \E i \in Inv : Repeat(i)
    \/ \E i \in Inv : InsertOk(i)
    \/ \E i \in Inv : InsertRaise(i)

SpecRepeat ==
    InitNoKey /\ [][NextRepeat]_vars

\* the health prober
NextStatus ==
    \/ StatusStart
    \/ StatusRespond
    \/ StatusRaise

SpecStatus ==
    Init /\ [][NextStatus]_vars

\* the documentation endpoint and the health prober side by side, for requests
\* that carry a program only
ProgramOnlyRequests ==
    {req \in Requests : /\ req.jcl_code = None
                        /\ req.proc_code = None
                        /\ req.session_id = NoId
                        /\ req.program_code \in {<<>>, <<PROGRAM_ID>>}}

NextBoth ==
    \/ \E req \in ProgramOnlyRequests : Start(1, req)
    \/ RespondError(1)
    \/ RespondLoading(1)
    \/ Retry(1)
    \/ RespondFailure(1)
    \/ RespondSuccess(1)
    \/ InsertOk(1)
    \/ InsertRaise(1)
    \/ StatusStart
    \/ StatusRespond
    \/ StatusRaise

SpecBoth ==
    Init /\ [][NextBoth]_vars

\* one invocation whose outbound calls all end: the post returns or raises
\* (timeout=30.0, line 108), the cooldown of line 116 elapses, the insert
\* returns or raises
Answer(i) ==
    RespondSuccess(i) \/ RespondLoading(i) \/ RespondFailure(i) \/ RespondError(i)

Insert(i) ==
    InsertOk(i) \/ InsertRaise(i)

NextLive ==
    \/ \E req \in ProgramOnlyRequests : Start(1, req)
    \/ RespondError(1)
    \/ RespondLoading(1)
    \/ Retry(1)
    \/ RespondFailure(1)
    \/ RespondSuccess(1)
    \/ InsertOk(1)
    \/ InsertRaise(1)

SpecLive ==
    /\ Init
    /\ [][NextLive]_vars
    /\ WF_vars(Answer(1))
    /\ WF_vars(Retry(1))
    /\ WF_vars(Insert(1))

\* two invocations in flight at once, each with its own request: the event
\* loop runs one of them from an await to its next await
RequestsOf(i) ==
    IF i = 1
    THEN {[jcl_code |-> None, proc_code |-> None,
           program_code |-> <<PROGRAM_ID, SP, N1>>, session_id |-> NoId]}
    ELSE {[jcl_code |-> Some(<<WORD>>), proc_code |-> None,
           program_code |-> <<WORD>>, session_id |-> NoId]}

NextPair ==
    \E i \in {1, 2} :
        \/ \E req \in RequestsOf(i) : Start(i, req)
        \/ RespondError(i)
        \/ RespondLoading(i)
        \/ Retry(i)
        \/ RespondFailure(i)
        \/ RespondSuccess(i)
        \/ InsertOk(i)
        \/ InsertRaise(i)

SpecPair ==
    Init /\ [][NextPair]_vars

(***************************************************************************)
(* Notions the claims use.                                                 *)
(***************************************************************************)
SectionMarkers ==
    {OVERVIEW, JOB_FLOW, TRANSFORMATIONS, VALIDATIONS, INPUTS_OUTPUTS,
     DEPENDENCIES, SPECIAL_NOTES}

SevenSections(doc) ==
    \A m \in SectionMarkers : Contains(doc, <<m>>)

\* the text between the Overview heading and the Job Flow heading
OverviewSection(doc) ==
    SubSeq(doc, FirstIndex(doc, OVERVIEW) + 1, FirstIndex(doc, JOB_FLOW) - 1)

\* the banner only generate_fallback_documentation writes
RuleBasedBanner ==
    SubSeq(FallbackHead, 1, 3)

\* an Optional[str] field is present: not None, not empty, not whitespace only
Present(x) ==
    x.some /\ Strip(x.text) # <<>>

PromptOf(req) ==
    create_documentation_prompt(OrEmpty(req.jcl_code), OrEmpty(req.proc_code),
                                req.program_code)

KeyConfigured ==
    HF_API_KEY # ""

Done(i) ==
    pc[i] = "done"

\* the records invocation i wrote
RecordsOf(i) ==
    {k \in 1..Len(db) : db[k].inv = i}

\* the rule-based generator produced invocation i's documentation and the
\* invocation went on to the storage step
RuleBased(i) ==
    pc[i] = "insert" /\ ~generated[i].some

\* every candidate of invocation i ended without a usable result
AllFailed(i) ==
    KeyConfigured /\ Done(i) /\ ~generated[i].some

\* invocation i's last candidate answered after the retry
ServedOnRetry(i) ==
    /\ generated[i].some
    /\ Len(sent[i]) >= 2
    /\ sent[i][Len(sent[i])] = sent[i][Len(sent[i]) - 1]

\* what the pipeline returns for req without a credential (lines 382-411), the
\* history insert raising or not
NoKeyDocumentation(req, insert_raises) ==
    LET d == generate_fallback_documentation(PromptOf(req))
    IN  IF d.exc # "" \/ insert_raises
        THEN generate_fallback_documentation(<<>>).val
        ELSE d.val

(***************************************************************************)
(* C1..C10                                                                 *)
(***************************************************************************)
\* C1: whatever the remote models and the storage do, generate_documentation
\* raises nothing to its caller and returns non-empty documentation with a
\* session identifier.
C1_NeverRaises ==
    \A i \in Inv :
        /\ pc[i] # "raised"
        /\ Done(i) => /\ result[i].documentation # <<>>
                      /\ IdTruthy(result[i].session_id)

\* C1 witness: with a credential, every candidate failed, some after a retry,
\* the generator then raised on the prompt, and a result was still returned.
C1_Witness ==
    \E i \in Inv :
        /\ KeyConfigured /\ Done(i)
        /\ error[i] = "IndexError"
        /\ Len(sent[i]) > NumModels

\* C2: without a credential every history record has method "fallback" and the
\* documentation returned holds all seven section markers.
C2_NoKeyFallback ==
    ~KeyConfigured =>
        /\ \A k \in 1..Len(db) : db[k].method = "fallback"
        /\ \A i \in Inv : Done(i) => SevenSections(result[i].documentation)

\* C2 witness: without a credential an invocation returned and wrote its record.
C2_Witness ==
    \E i \in Inv : ~KeyConfigured /\ Done(i) /\ RecordsOf(i) # {}

C4_RetrySuccessIsRemote ==
    \A i \in Inv :
        (Done(i) /\ ServedOnRetry(i)) =>
            /\ \E k \in RecordsOf(i) : db[k].method = "hugging_face"
            /\ result[i].documentation = format_llm_response(generated[i].text)
            /\ ~Contains(result[i].documentation, RuleBasedBanner)

\* C5 (as claimed): generate_fallback_documentation raises on no prompt the
\* pipeline hands it, and returns text with all seven sections.
C5_FallbackTotal ==
    \A i \in Inv :
        pc[i] # "idle" =>
            LET r == generate_fallback_documentation(prompt[i])
            IN  r.exc = "" /\ r.val # <<>> /\ SevenSections(r.val)

\* C6 (as claimed): the session identifier returned is the one supplied whenever
\* the request carries one (any str), fresh otherwise, and equals the one of the
\* record written.
C6_SessionIdAsSupplied ==
    \A i \in Inv :
        Done(i) =>
            /\ request[i].session_id.k = "str" =>
                   result[i].session_id = request[i].session_id
            /\ request[i].session_id.k = "none" =>
                   result[i].session_id.k = "uuid"
            /\ \A k \in RecordsOf(i) : db[k].session_id = result[i].session_id

\* C6 (amended): the session identifier returned is the one supplied whenever a
\* non-empty one was supplied; when none or the empty str was supplied it is a
\* uuid drawn in this invocation, different from any other invocation's, and on
\* the error path a second one, not the one drawn at the start; the record
\* written carries the identifier returned.
C6_SessionIdStable ==
    \A i \in Inv :
        Done(i) =>
            /\ IdTruthy(request[i].session_id) =>
                   result[i].session_id = request[i].session_id
            /\ ~IdTruthy(request[i].session_id) =>
                   /\ result[i].session_id.k = "uuid"
                   /\ result[i].session_id.n \in 1..uuid_count
                   /\ error[i] # "" => result[i].session_id # session_id[i]
                   /\ \A j \in Inv \ {i} :
                          Done(j) => result[j].session_id # result[i].session_id
            /\ \A k \in RecordsOf(i) : db[k].session_id = result[i].session_id

\* C6 witness: the empty str was supplied, the invocation returned a uuid and
\* wrote its record under it.
C6_Witness ==
    \E i \in Inv :
        /\ Done(i)
        /\ request[i].session_id = StrId(0)
        /\ result[i].session_id.k = "uuid"
        /\ RecordsOf(i) # {}

\* C7 (as claimed): without a credential, two invocations with the same request
\* fields and no session identifier return distinct session identifiers and the
\* same documentation.
C7_SameRequestSameDocumentation ==
    \A i, j \in Inv :
        (/\ i # j /\ Done(i) /\ Done(j) /\ ~KeyConfigured
         /\ request[i] = request[j]
         /\ request[i].session_id = NoId) =>
            /\ result[i].session_id # result[j].session_id
            /\ result[i].documentation = result[j].documentation

\* the first line of program_code holding the marker is "PROGRAM-ID. " and name
DeclaresFirst(program_code, name) ==
    LET lines == Split(program_code, NL)
        k == MarkerLine(lines)
    IN  k # 0 /\ lines[k] = <<PROGRAM_ID, SP>> \o name

\* C8 (as claimed): the Overview of the rule-based documentation names the
\* program the first PROGRAM-ID line of program_code declares, whatever
\* jcl_code and proc_code hold, and the placeholder when program_code has no
\* such line.
C8_OverviewNamesProgram ==
    \A i \in Inv :
        RuleBased(i) =>
            /\ DeclaresFirst(request[i].program_code, <<N1>>) =>
                   Contains(OverviewSection(documentation[i]), <<N1>>)
            /\ ~Contains(request[i].program_code, <<PROGRAM_ID>>) =>
                   Contains(OverviewSection(documentation[i]), <<MAINFRAME_PROGRAM>>)

\* C9 (as claimed): the rule-based documentation carries the JCL wording iff
\* jcl_code is present and the PROC wording iff proc_code is present.
C9_WordingFollowsFields ==
    \A i \in Inv :
        RuleBased(i) =>
            /\ Contains(documentation[i], JclDetected) <=> Present(request[i].jcl_code)
            /\ Contains(documentation[i], ProcSentence) <=> Present(request[i].proc_code)

\* C10: check_llm_status raises nothing and answers no_key exactly without a
\* credential, working exactly to 200, loading exactly to 503 and error to any
\* other status or a raised probe; available is true exactly for working.
C10_StatusClassified ==
    /\ st_pc \in {"idle", "probe"}
    /\ \A k \in 1..Len(st_log) :
          LET o == st_log[k].outcome
              a == st_log[k].answer
          IN  /\ a.status \in {"no_key", "working", "loading", "error"}
              /\ a.status = "no_key" <=> ~KeyConfigured
              /\ a.status = "working" <=> (o.probed /\ ~o.exc /\ o.status = 200)
              /\ a.status = "loading" <=> (o.probed /\ ~o.exc /\ o.status = 503)
              /\ a.status = "error" <=>
                     (o.probed /\ (o.exc \/ o.status \notin {200, 503}))
              /\ a.available <=> a.status = "working"

\* C10 witness: three calls answered loading, error for a raised probe, working.
C10_Witness ==
    /\ Len(st_log) = 3
    /\ st_log[1].answer.status = "loading"
    /\ st_log[2].answer.status = "error" /\ st_log[2].outcome.exc
    /\ st_log[3].answer.status = "working"

(***************************************************************************)
(* C11..C20                                                                *)
(***************************************************************************)
\* the candidates posted to so far are 1, 2, ... in list order, none more than
\* twice, none again after a later one
SentInOrder(s) ==
    /\ \A k \in 1..Len(s) : s[k] \in 1..NumModels
    /\ s # <<>> => s[1] = 1
    /\ \A k \in 1..(Len(s) - 1) : s[k + 1] \in {s[k], s[k] + 1}
    /\ \A k \in 1..(Len(s) - 2) : s[k + 2] # s[k]

\* the step posts one request of invocation i
Posts(i) ==
    sent'[i] # sent[i]

\* C11: the candidates are posted to in list order, one request per step and
\* only while no request of the invocation is outstanding or the outstanding
\* one has just been answered; no candidate gets more than two requests; the
\* second request to a candidate is posted only by the step that ends the
\* cooldown, and the cooldown is entered only by the step that receives 503 to
\* the candidate's first request; after the retry the next request goes to the
\* next candidate.
C11_InOrderAtMostTwice ==
    [][\A i \in Inv :
          /\ SentInOrder(sent'[i])
          /\ Posts(i) =>
                 /\ Len(sent'[i]) = Len(sent[i]) + 1
                 /\ SubSeq(sent'[i], 1, Len(sent[i])) = sent[i]
                 /\ pc'[i] = "post"
          /\ (Posts(i) /\ sent[i] # <<>>
                /\ sent'[i][Len(sent'[i])] = sent[i][Len(sent[i])]) =>
                 pc[i] = "sleep" /\ Retry(i)
          /\ (pc'[i] = "sleep" /\ pc[i] # "sleep") =>
                 RespondLoading(i) /\ attempt[i] = 1
          /\ (Posts(i) /\ attempt[i] = 2) =>
                 sent'[i][Len(sent'[i])] = sent[i][Len(sent[i])] + 1
      ]_vars

\* C11 witness: the first and the third candidate were retried, the second and
\* the fourth got one request each, and the invocation returned.
C11_Witness ==
    \E i \in Inv : Done(i) /\ sent[i] = <<1, 1, 2, 3, 3, 4>>

\* the shapes the claim counts as recognized, carrying text
Recognized(body) ==
    body.shape \in TextShapes

\* the generated_text field is there but holds no text
FieldWithoutText(body) ==
    body.shape \in {"list_obj_nontext", "obj_nontext"}

\* the step leaves candidate model[i] for the next one, or for line 142 after
\* the last, without a result of a candidate
Advances(i) ==
    /\ ~generated'[i].some
    /\ IF model[i] < NumModels
       THEN sent'[i] = Append(sent[i], model[i] + 1) /\ pc'[i] = "post"
       ELSE sent'[i] = sent[i] /\ pc'[i] \in {"insert", "done"}

\* the step ends call_hugging_face_api with the normalized text of candidate
\* model[i], which generate_documentation takes over
ReturnsNormalized(i, text) ==
    /\ generated'[i] = Some(text)
    /\ documentation'[i] = format_llm_response(text)
    /\ sent'[i] = sent[i]
    /\ pc'[i] = "insert"

\* C12 (as claimed): a final response with status 200 and a recognized shape
\* ends the cascade with its normalized text; a failure status, an exception
\* or an unrecognized shape only advances it; a candidate's text is returned
\* only for such a response, and once it is, no further request is posted.
C12_FirstUsableReturned ==
    [][\A i \in Inv :
          /\ \A body \in Bodies :
                 RespondSuccessWith(i, body) =>
                     IF Recognized(body) THEN ReturnsNormalized(i, body.text)
                     ELSE FieldWithoutText(body) \/ Advances(i)
          /\ (RespondError(i) \/ RespondFailure(i)) => Advances(i)
          /\ (generated'[i].some /\ ~generated[i].some) =>
                 \E body \in Bodies :
                     Recognized(body) /\ RespondSuccessWith(i, body)
          /\ generated[i].some => sent'[i] = sent[i]
      ]_vars

\* the banner only format_llm_response writes
RemoteBanner ==
    SubSeq(AiBanner, 1, 2)

\* invocation i has chosen its documentation (line 385 is passed)
HasChosen(i) ==
    pc[i] \in {"insert", "done"}

\* C13 (as claimed): when a candidate returned text of usable shape that is no
\* longer than the threshold of line 375, the documentation chosen is the
\* rule-based one and not the remote-bannered text.
C13_ShortRemoteDiscarded ==
    \A i \in Inv :
        (/\ HasChosen(i)
         /\ generated[i].some
         /\ TextLen(generated[i].text) <= MinRemoteLen) =>
            /\ Contains(documentation[i], RuleBasedBanner)
            /\ ~Contains(documentation[i], RemoteBanner)

\* doc holds the heading Overview followed on the next line by text
UnderOverview(doc, text) ==
    Contains(doc, <<OVERVIEW, NL>> \o text)

\* C14 (as claimed): for generated text without the Overview marker,
\* format_llm_response returns a document with all seven section headings and
\* the first slice of the text under Overview; for text with the marker it
\* returns the remote banner followed by the text unchanged.
C14_NormalizerLayout ==
    \A i \in Inv :
        generated[i].some =>
            LET raw == generated[i].text
                out == format_llm_response(raw)
            IN  IF Contains(raw, <<OVERVIEW>>)
                THEN out = AiBanner \o raw
                ELSE /\ SevenSections(out)
                     /\ UnderOverview(out, Slice(raw, 0, OverviewSlice))

\* C15 (as claimed): a history record is tagged with the remote method exactly
\* when its documentation is the normalized text of a candidate, and with
\* fallback exactly when it is the rule-based generator's, a credential being
\* configured or not.
C15_MethodNamesPath ==
    \A k \in 1..Len(db) :
        /\ db[k].method \in {"hugging_face", "fallback"}
        /\ db[k].method = "hugging_face" <=>
               /\ generated[db[k].inv].some
               /\ Contains(db[k].documentation, RemoteBanner)
        /\ db[k].method = "fallback" <=>
               /\ ~generated[db[k].inv].some
               /\ Contains(db[k].documentation, RuleBasedBanner)

\* the history insert of invocation i did not raise
StorageWorked(i) ==
    error[i] # "InsertError"

\* C16 (as claimed): an invocation that returned while the storage worked has
\* written exactly one record, holding the documentation returned, the error
\* path after a raising generator included; no invocation writes two records.
C16_OneRecordPerInvocation ==
    \A i \in Inv :
        /\ Cardinality(RecordsOf(i)) <= 1
        /\ (Done(i) /\ StorageWorked(i)) =>
               /\ Cardinality(RecordsOf(i)) = 1
               /\ \A k \in RecordsOf(i) :
                      db[k].documentation = result[i].documentation

\* C17 (as claimed): when the history insert raises, the invocation returns
\* the documentation it had chosen before the storage step.
C17_InsertFailureKeepsResponse ==
    \A i \in Inv :
        (Done(i) /\ ~StorageWorked(i)) =>
            result[i].documentation = documentation[i]

\* C18: without a credential no request is posted to any candidate and no
\* probe is posted: an invocation never waits for a remote answer, takes the
\* rule-based generator's output for its prompt as its documentation, and
\* check_llm_status answers no_key without having probed.
C18_NoKeyNoRequest ==
    ~KeyConfigured =>
        /\ \A i \in Inv :
               /\ sent[i] = <<>>
               /\ pc[i] \notin {"post", "sleep"}
               /\ ~generated[i].some
               /\ pc[i] = "insert" =>
                      documentation[i] =
                          generate_fallback_documentation(prompt[i]).val
        /\ st_probes = 0
        /\ st_pc = "idle"
        /\ \A k \in 1..Len(st_log) :
               /\ ~st_log[k].outcome.probed
               /\ st_log[k].answer.status = "no_key"

\* C18 witness: without a credential an invocation returned with its record
\* written and check_llm_status has answered.
C18_Witness ==
    /\ ~KeyConfigured
    /\ \E i \in Inv : Done(i) /\ RecordsOf(i) # {}
    /\ Len(st_log) >= 1

\* C19: an invocation posts at most two requests per candidate, 2 * NumModels
\* in all, writes at most one record, and, its outbound calls all ending,
\* once started it eventually returns a result.
C19_Terminates ==
    /\ [](\A i \in Inv : /\ Len(sent[i]) <= 2 * NumModels
                          /\ Cardinality(RecordsOf(i)) <= 1
                          /\ pc[i] # "raised")
    /\ \A i \in Inv : (pc[i] # "idle") ~> Done(i)

\* C19 witness: an invocation returned after eight requests and one insert.
C19_Witness ==
    \E i \in Inv :
        Done(i) /\ Len(sent[i]) = 2 * NumModels /\ Cardinality(RecordsOf(i)) = 1

\* the documentation invocation i chooses, from its own request and the text
\* its own candidate returned
OwnDocumentation(i) ==
    IF generated[i].some THEN format_llm_response(generated[i].text)
    ELSE generate_fallback_documentation(PromptOf(request[i])).val

\* the session id invocation i uses: the request's, or a uuid of its own
OwnSessionId(i, sid) ==
    /\ IF IdTruthy(request[i].session_id) THEN sid = request[i].session_id
       ELSE sid.k = "uuid"
    /\ \A j \in Inv \ {i} :
           /\ pc[j] # "idle" => sid # session_id[j]
           /\ Done(j) => sid # result[j].session_id

\* C20: under every interleaving of two invocations, each one's prompt,
\* documentation, session identifier and result follow from its own request
\* and the answers to its own calls, and the record it writes holds its own
\* request fields, session identifier and documentation, never the other's.
C20_NoInterference ==
    \A i \in Inv :
        /\ pc[i] # "idle" =>
               /\ prompt[i] = PromptOf(request[i])
               /\ OwnSessionId(i, session_id[i])
        /\ (HasChosen(i) /\ error[i] \in {"", "InsertError"}) =>
               documentation[i] = OwnDocumentation(i)
        /\ Done(i) =>
               /\ OwnSessionId(i, result[i].session_id)
               /\ result[i].documentation =
                      IF error[i] = "" THEN documentation[i]
                      ELSE generate_fallback_documentation(<<>>).val
        /\ Cardinality(RecordsOf(i)) <= 1
        /\ \A k \in RecordsOf(i) :
               /\ db[k].session_id = session_id[i]
               /\ db[k].documentation = documentation[i]
               /\ db[k].jcl_code = request[i].jcl_code
               /\ db[k].proc_code = request[i].proc_code
               /\ db[k].program_code = request[i].program_code
               /\ \A j \in Inv \ {i} :
                      pc[j] # "idle" => db[k].session_id # session_id[j]

\* C20 witness: the first invocation is in the cooldown; the second started
\* after it, got a candidate's text, wrote its record and returned.
C20_Witness ==
    /\ pc[1] = "sleep"
    /\ session_id[1] = Uuid(1)
    /\ Done(2)
    /\ generated[2].some
    /\ RecordsOf(2) # {}

====
